---- MODULE Spec2Model ----
(***************************************************************************)
(* A model of Lavapy / Pylink:                                             *)
(*   - pylink/websocket.py : the Websocket session (connect / send)        *)
(*   - lavapy/tracks.py    : Playable.search and the resource variants     *)
(*   - lavapy/stats.py     : Stats.__init__ (decoding a statistics payload)*)
(* Three specifications share the variables: SpecSession, SpecSearch and   *)
(* SpecStats. Each one moves only the variables of its component.          *)
(***************************************************************************)
EXTENDS Integers, Sequences, FiniteSets, TLC

VARIABLES
    \* ---- pylink/websocket.py ----
    _connection,    \* Websocket._connection: None, or the id of a connection
    bgTask,         \* the task made by asyncio.create_task(self.connect())
    callerPc,       \* where the caller's own task is: "idle" or inside connect()
    conns,          \* every connection ws_connect has opened: "open" / "closed"
    wire,           \* messages written to connections, in order
    calls,          \* the send(payload) calls the caller has made, in order
    raised,         \* exceptions raised to the caller, in order
    unretrieved,    \* exceptions stored in the detached task, never retrieved
    explicitConnects, \* number of connect() calls the caller made itself
    \* ---- lavapy/tracks.py ----
    args,           \* the arguments of the Playable.search call
    s_pc,           \* "start", "lookup" (awaiting getTracks), "returned", "raised"
    poolCalls,      \* number of NodePool.getNode() calls made
    lookups,        \* the node.getTracks(cls, query) calls made, in order
    tracks,         \* what node.getTracks returned
    result,         \* what search returned or raised
    \* ---- lavapy/stats.py ----
    data,           \* the statistics payload handed to Stats.__init__
    st_pc,          \* "payload" or "decoded"
    stats           \* the Stats object, or the exception of the constructor

sessionVars == <<_connection, bgTask, callerPc, conns, wire, calls, raised,
                 unretrieved, explicitConnects>>
searchVars  == <<args, s_pc, poolCalls, lookups, tracks, result>>
statsVars   == <<data, st_pc, stats>>
vars        == <<sessionVars, searchVars, statsVars>>

\* ------------------------------------------------------------------ bounds
MaxSends    == 3    \* send() calls the caller makes
MaxConnects == 1    \* connect() calls the caller makes itself
MaxTracks   == 2    \* longest list node.getTracks returns
MaxMissing  == 2    \* keys left out of a statistics payload
MaxVal      == 1    \* spread of the values in a statistics payload

None     == 0
Payloads == {"play", "stop"}

\* =========================================================================
\*                         pylink/websocket.py
\* =========================================================================

\* Websocket.__init__: _connection = None and connect() scheduled as a
\* detached task that has not run yet.
SessionInit ==
    /\ _connection = None
    /\ bgTask = "scheduled"
    /\ callerPc = "idle"
    /\ conns = <<>>
    /\ wire = <<>>
    /\ calls = <<>>
    /\ raised = <<>>
    /\ unretrieved = <<>>
    /\ explicitConnects = 0

\* The connection state of the spec's state machine, read off the fields the
\* code has: the handle held, and whether a connect() is suspended in
\* ws_connect.
State ==
    IF _connection # None THEN "Connected"
    ELSE IF bgTask = "awaiting" \/ callerPc = "connect" THEN "Connecting"
    ELSE "Disconnected"

\* The detached task starts running connect(): headers are built and the
\* coroutine suspends in `await self._session.ws_connect(...)`.
BgConnectStart ==
    /\ bgTask = "scheduled"
    /\ bgTask' = "awaiting"
    /\ UNCHANGED <<_connection, callerPc, conns, wire, calls, raised,
                   unretrieved, explicitConnects>>
    /\ UNCHANGED <<searchVars, statsVars>>

\* ws_connect returns inside the detached task: the handle is assigned.
BgConnectSucceed ==
    /\ bgTask = "awaiting"
    /\ conns' = Append(conns, "open")
    /\ _connection' = Len(conns) + 1
    /\ bgTask' = "done"
    /\ UNCHANGED <<callerPc, wire, calls, raised, unretrieved, explicitConnects>>
    /\ UNCHANGED <<searchVars, statsVars>>

\* ws_connect raises inside the detached task: the assignment never runs and
\* the exception is stored in the Task object, which nobody holds.
BgConnectFail ==
    /\ bgTask = "awaiting"
    /\ bgTask' = "failed"
    /\ unretrieved' = Append(unretrieved, "TransportError")
    /\ UNCHANGED <<_connection, callerPc, conns, wire, calls, raised,
                   explicitConnects>>
    /\ UNCHANGED <<searchVars, statsVars>>

\* The caller awaits connect() itself.
CallConnect ==
    /\ callerPc = "idle"
    /\ explicitConnects < MaxConnects
    /\ callerPc' = "connect"
    /\ explicitConnects' = explicitConnects + 1
    /\ UNCHANGED <<_connection, bgTask, conns, wire, calls, raised, unretrieved>>
    /\ UNCHANGED <<searchVars, statsVars>>

\* ws_connect returns inside the caller's connect(): the handle is assigned,
\* whatever it held before.
CallConnectSucceed ==
    /\ callerPc = "connect"
    /\ conns' = Append(conns, "open")
    /\ _connection' = Len(conns) + 1
    /\ callerPc' = "idle"
    /\ UNCHANGED <<bgTask, wire, calls, raised, unretrieved, explicitConnects>>
    /\ UNCHANGED <<searchVars, statsVars>>

\* ws_connect raises inside the caller's connect(): it propagates to the caller.
CallConnectFail ==
    /\ callerPc = "connect"
    /\ callerPc' = "idle"
    /\ raised' = Append(raised, [op |-> "connect", exc |-> "TransportError"])
    /\ UNCHANGED <<_connection, bgTask, conns, wire, calls, unretrieved,
                   explicitConnects>>
    /\ UNCHANGED <<searchVars, statsVars>>

\* The transport of an open connection fails. No code of the Websocket runs.
TransportFail ==
    /\ \E c \in 1..Len(conns) :
          /\ conns[c] = "open"
          /\ conns' = [conns EXCEPT ![c] = "closed"]
    /\ UNCHANGED <<_connection, bgTask, callerPc, wire, calls, raised,
                   unretrieved, explicitConnects>>
    /\ UNCHANGED <<searchVars, statsVars>>

CallRecord(payload, outcome) ==
    [payload |-> payload, bg |-> bgTask, fresh |-> explicitConnects = 0,
     conn |-> _connection, outcome |-> outcome]

\* A plausible bug: a guard that returns quietly when there is no connection.
SendOnNone_silent(payload) ==
    /\ calls' = Append(calls, CallRecord(payload, "ok"))
    /\ UNCHANGED <<wire, raised, conns>>

\* send with _connection = None: `self._connection.send_json` is an
\* attribute access on None.
SendOnNone(payload) ==
    /\ calls' = Append(calls, CallRecord(payload, "AttributeError"))
    /\ raised' = Append(raised, [op |-> "send", exc |-> "AttributeError"])
    /\ UNCHANGED <<wire, conns>>

\* A plausible bug: the write is retried after it already went out.
SendJson_twice(payload) ==
    LET msg == [conn |-> _connection, call |-> Len(calls) + 1, msg |-> payload]
    IN  IF conns[_connection] = "open"
        THEN /\ wire' = wire \o <<msg, msg>>
             /\ calls' = Append(calls, CallRecord(payload, "ok"))
             /\ UNCHANGED <<raised, conns>>
        ELSE /\ calls' = Append(calls, CallRecord(payload, "ConnectionResetError"))
             /\ raised' = Append(raised, [op |-> "send", exc |-> "ConnectionResetError"])
             /\ UNCHANGED <<wire, conns>>

\* send with a handle held: `await self._connection.send_json(payload)`.
\* The handle writes the payload when its transport is open and raises when
\* its transport is gone.
SendJson(payload) ==
    LET msg == [conn |-> _connection, call |-> Len(calls) + 1, msg |-> payload]
    IN  IF conns[_connection] = "open"
        THEN /\ wire' = Append(wire, msg)
             /\ calls' = Append(calls, CallRecord(payload, "ok"))
             /\ UNCHANGED <<raised, conns>>
        ELSE /\ calls' = Append(calls, CallRecord(payload, "ConnectionResetError"))
             /\ raised' = Append(raised, [op |-> "send", exc |-> "ConnectionResetError"])
             /\ UNCHANGED <<wire, conns>>

\* Websocket.send(payload), awaited by the caller.
send ==
    /\ callerPc = "idle"
    /\ Len(calls) < MaxSends
    /\ \E payload \in Payloads :
          IF _connection = None THEN SendOnNone(payload) ELSE SendJson(payload)
    /\ UNCHANGED <<_connection, bgTask, callerPc, unretrieved, explicitConnects>>
    /\ UNCHANGED <<searchVars, statsVars>>

SessionNext ==
    \/ BgConnectStart
    \/ BgConnectSucceed
    \/ BgConnectFail
    \/ CallConnect
    \/ CallConnectSucceed
    \/ CallConnectFail
    \/ TransportFail
    \/ send

\* =========================================================================
\*                          lavapy/tracks.py
\* =========================================================================

\* The concrete resource variants (tracks.py:244-273).
Variants == {"YoutubeTrack", "YoutubeMusicTrack", "SoundcloudTrack", "YoutubePlaylist"}

\* The class attribute _searchType, as the class bodies assign it. Playable
\* only annotates it (tracks.py:49), which assigns nothing, and
\* YoutubePlaylist assigns only _trackCls.
_searchType ==
    [c \in {"YoutubeTrack", "YoutubeMusicTrack", "SoundcloudTrack"} |->
        CASE c = "YoutubeTrack"      -> "ytsearch"
          [] c = "YoutubeMusicTrack" -> "ytmsearch"
          [] c = "SoundcloudTrack"   -> "scsearch"]

\* Attribute lookup cls._searchType along the class hierarchy.
HasSearchType(cls) == cls \in DOMAIN _searchType

Queries  == {"song", "id:42"}
Nodes    == {"n1", "n2"}
NoNode   == "None"
TrackIds == {"t1", "t2"}

\* Python values that search handles, as records of one shape.
Value(type, items, name, cls, query, search) ==
    [type |-> type, items |-> items, name |-> name,
     cls |-> cls, query |-> query, search |-> search]
NoneV             == Value("None", <<>>, "", "", "", FALSE)
Unset             == Value("unset", <<>>, "", "", "", FALSE)
ListV(items)      == Value("list", items, "", "", "", FALSE)
TrackV(id)        == Value("Track", <<id>>, "", "", "", FALSE)

\* MultiTrack.__init__(name, tracks)
MultiTrack(name, items) == Value("MultiTrack", items, name, "", "", FALSE)

\* PartialResource.__init__(cls, query, search)
PartialResource(cls, query, search) ==
    Value("PartialResource", <<>>, "", cls, query, search)

Returned(v) == [kind |-> "return", value |-> v, exc |-> ""]
Raised(e)   == [kind |-> "raise", value |-> NoneV, exc |-> e]
NoResult    == [kind |-> "none", value |-> NoneV, exc |-> ""]

SeqsUpTo(S, n) == UNION {[1..k -> S] : k \in 0..n}

\* What node.getTracks can return: nothing, a list of tracks (a lookup may
\* decode an empty list), or one MultiTrack container.
LookupResults ==
    {NoneV}
    \cup {ListV(s) : s \in SeqsUpTo(TrackIds, MaxTracks)}
    \cup {MultiTrack("mix", s) : s \in SeqsUpTo(TrackIds, MaxTracks)}

\* NodePool.getNode(): a node of the pool.
getNode == Nodes

\* The query handed on: f"{cls._searchType}:{query}" when search is true.
PrefixedQuery(cls, query) == _searchType[cls] \o ":" \o query

\* tracks[0]: list indexing; MultiTrack defines no __getitem__.
Subscript0(t) ==
    IF t.type = "list"
    THEN IF Len(t.items) = 0 THEN Raised("IndexError")
         ELSE Returned(TrackV(t.items[1]))
    ELSE Raised("TypeError")

\* Playable.search up to its first suspension (tracks.py:76-84): the node
\* is fetched from the pool when none is given, the query is prefixed, and
\* either a PartialResource is returned or node.getTracks is awaited.
SearchCall ==
    /\ s_pc = "start"
    /\ \E n \in (IF args.node = NoNode THEN getNode ELSE {args.node}) :
        /\ poolCalls' = IF args.node = NoNode THEN poolCalls + 1 ELSE poolCalls
        /\ IF args.search /\ ~HasSearchType(args.cls)
           THEN /\ s_pc' = "raised"
                /\ result' = Raised("AttributeError")
                /\ UNCHANGED lookups
           ELSE LET q == IF args.search THEN PrefixedQuery(args.cls, args.query)
                         ELSE args.query
                IN  IF args.partial
                    THEN /\ s_pc' = "returned"
                         /\ result' = Returned(PartialResource(args.cls, q, args.search))
                         /\ UNCHANGED lookups
                    ELSE /\ s_pc' = "lookup"
                         /\ lookups' = Append(lookups, [node |-> n, cls |-> args.cls, query |-> q])
                         /\ UNCHANGED result
    /\ UNCHANGED <<args, tracks>>
    /\ UNCHANGED <<sessionVars, statsVars>>

\* The result selection of tracks.py:85-88.
Select(t, search, returnFirst) ==
    IF t # NoneV
    THEN IF search /\ returnFirst THEN Subscript0(t) ELSE Returned(t)
    ELSE Returned(NoneV)

\* node.getTracks returns and search runs to its end (tracks.py:84-88).
GetTracksReturn ==
    /\ s_pc = "lookup"
    /\ \E t \in LookupResults :
        /\ tracks' = t
        /\ result' = Select(t, args.search, args.returnFirst)
        /\ s_pc' = IF result'.kind = "raise" THEN "raised" ELSE "returned"
    /\ UNCHANGED <<args, poolCalls, lookups>>
    /\ UNCHANGED <<sessionVars, statsVars>>

\* node.getTracks raises: search catches nothing, the error propagates.
GetTracksRaise ==
    /\ s_pc = "lookup"
    /\ result' = Raised("TransportError")
    /\ s_pc' = "raised"
    /\ UNCHANGED <<args, poolCalls, lookups, tracks>>
    /\ UNCHANGED <<sessionVars, statsVars>>

SearchArgs ==
    [cls : Variants, query : Queries, node : Nodes \cup {NoNode},
     search : BOOLEAN, returnFirst : BOOLEAN, partial : BOOLEAN]

SearchInit ==
    /\ args \in SearchArgs
    /\ s_pc = "start"
    /\ poolCalls = 0
    /\ lookups = <<>>
    /\ tracks = Unset
    /\ result = NoResult

SearchNext ==
    \/ SearchCall
    \/ GetTracksReturn
    \/ GetTracksRaise

\* =========================================================================
\*                          lavapy/stats.py
\* =========================================================================

TopKeys    == {"uptime", "players", "playingPlayers"}
MemoryKeys == {"reservable", "used", "free", "allocated"}
CpuKeys    == {"cores", "systemLoad", "lavalinkLoad"}
FrameKeys  == {"sent", "deficit", "nulled"}

\* A payload key as a path: <<"uptime">>, <<"memory">>, <<"memory", "used">>.
AllPaths ==
    {<<k>> : k \in TopKeys \cup {"memory", "cpu", "frameStats"}}
    \cup {<<"memory", k>> : k \in MemoryKeys}
    \cup {<<"cpu", k>> : k \in CpuKeys}
    \cup {<<"frameStats", k>> : k \in FrameKeys}

\* The value a payload carries under a leaf key: distinct per key, shifted by d.
LeafCode ==
    [uptime |-> 10, players |-> 20, playingPlayers |-> 30,
     reservable |-> 40, used |-> 50, free |-> 60, allocated |-> 70,
     cores |-> 80, systemLoad |-> 90, lavalinkLoad |-> 100,
     sent |-> 110, deficit |-> 120, nulled |-> 130]

SubDict(name, keys, missing, d) ==
    [k \in {x \in keys : <<name, x>> \notin missing} |-> LeafCode[k] + d]

\* The payload that leaves out the keys in `missing`, as a Python dict.
Payload(missing, d) ==
    LET top == {k \in TopKeys \cup {"memory", "cpu", "frameStats"} : <<k>> \notin missing}
    IN  [k \in top |->
            CASE k = "memory"     -> SubDict("memory", MemoryKeys, missing, d)
              [] k = "cpu"        -> SubDict("cpu", CpuKeys, missing, d)
              [] k = "frameStats" -> SubDict("frameStats", FrameKeys, missing, d)
              [] OTHER            -> LeafCode[k] + d]

StatsPayloads ==
    {Payload(m, d) : m \in {x \in SUBSET AllPaths : Cardinality(x) <= MaxMissing},
                     d \in 0..MaxVal}

\* A plausible bug: the sentinel of an absent frame counter is 0.
FrameGet_zero(frameStats, key) ==
    IF key \in DOMAIN frameStats THEN frameStats[key] ELSE 0

\* frameStats.get(key, -1)
FrameGet(frameStats, key) ==
    IF key \in DOMAIN frameStats THEN frameStats[key] ELSE -1

\* data.get("frameStats", {})
FrameStatsOf(d) ==
    IF "frameStats" \in DOMAIN d THEN d["frameStats"] ELSE <<>>

\* The subscripts d[k] that Stats.__init__ evaluates, in order: the first
\* key that is absent raises KeyError.
MissingRequired(d) ==
    (TopKeys \ DOMAIN d)
    \cup (IF "memory" \in DOMAIN d THEN MemoryKeys \ DOMAIN d["memory"] ELSE {"memory"})
    \cup (IF "cpu" \in DOMAIN d THEN CpuKeys \ DOMAIN d["cpu"] ELSE {"cpu"})

\* Stats.__init__(node, data)
StatsInit(node, d) ==
    IF MissingRequired(d) # {}
    THEN [kind |-> "KeyError"]
    ELSE [kind |-> "Stats",
          node |-> node,
          uptime |-> d["uptime"],
          players |-> d["players"],
          playingPlayers |-> d["playingPlayers"],
          memoryReservable |-> d["memory"]["reservable"],
          memoryUsed |-> d["memory"]["used"],
          memoryFree |-> d["memory"]["free"],
          memoryAllocated |-> d["memory"]["allocated"],
          cpuCores |-> d["cpu"]["cores"],
          systemLoad |-> d["cpu"]["systemLoad"],
          lavalinkLoad |-> d["cpu"]["lavalinkLoad"],
          framesSent |-> FrameGet(FrameStatsOf(d), "sent"),
          framesDeficit |-> FrameGet(FrameStatsOf(d), "deficit"),
          framesNulled |-> FrameGet(FrameStatsOf(d), "nulled")]

StatsStart ==
    /\ data \in StatsPayloads
    /\ st_pc = "payload"
    /\ stats = [kind |-> "none"]

\* The node decodes a statistics push: Stats(node, data).
Decode ==
    /\ st_pc = "payload"
    /\ \E node \in Nodes : stats' = StatsInit(node, data)
    /\ st_pc' = "decoded"
    /\ UNCHANGED data
    /\ UNCHANGED <<sessionVars, searchVars>>

StatsNext ==
    \/ Decode

\* =========================================================================
\*                          specifications
\* =========================================================================

SessionIdle == SessionInit

SearchIdle ==
    /\ args = [cls |-> "YoutubeTrack", query |-> "song", node |-> NoNode,
               search |-> TRUE, returnFirst |-> TRUE, partial |-> FALSE]
    /\ s_pc = "start"
    /\ poolCalls = 0
    /\ lookups = <<>>
    /\ tracks = Unset
    /\ result = NoResult

StatsIdle ==
    /\ data = Payload({}, 0)
    /\ st_pc = "payload"
    /\ stats = [kind |-> "none"]

InitSession == SessionInit /\ SearchIdle /\ StatsIdle
SpecSession == InitSession /\ [][SessionNext]_vars

InitSearch == SessionIdle /\ SearchInit /\ StatsIdle
SpecSearch == InitSearch /\ [][SearchNext]_vars

InitStats == SessionIdle /\ SearchIdle /\ StatsStart
SpecStats == InitStats /\ [][StatsNext]_vars

\* =========================================================================
\*                              claims
\* =========================================================================

\* The send calls made on a fresh session (the caller has called nothing but
\* send) while the detached connect task had not completed.
EarlySends ==
    {i \in 1..Len(calls) : calls[i].fresh /\ calls[i].bg \in {"scheduled", "awaiting"}}

Written(i) == \E k \in 1..Len(wire) : wire[k].call = i

C7_WireInCallOrder ==
    \A k \in 1..Len(wire) :
        /\ wire[k].call \in 1..Len(calls)
        /\ wire[k].msg = calls[wire[k].call].payload
        /\ \A j \in 1..(k - 1) : wire[j].call < wire[k].call

\* Three sends, the second failed on a dead transport, the first and third
\* were written with different payloads.
C7_Witness ==
    /\ Len(calls) = 3
    /\ Len(wire) = 2
    /\ wire[1].call = 1
    /\ wire[2].call = 3
    /\ wire[1].msg # wire[2].msg
    /\ calls[2].outcome = "ConnectionResetError"

\* C6 (as stated): when the background connect fails, the session is
\* Disconnected and the caller has observed the failure.
C6_ConnectFailureObservable ==
    (bgTask = "failed" /\ explicitConnects = 0) =>
        /\ State = "Disconnected"
        /\ \E r \in 1..Len(raised) : raised[r].exc = "TransportError"

\* The transport of the connection the session holds fails in this step.
HeldTransportFails ==
    /\ _connection # None
    /\ conns[_connection] = "open"
    /\ conns'[_connection] = "closed"

C9_Step ==
    /\ State' # State =>
          <<State, State'>> \in {<<"Disconnected", "Connecting">>,
                                 <<"Connecting", "Connected">>,
                                 <<"Connecting", "Disconnected">>,
                                 <<"Connected", "Disconnected">>}
    /\ HeldTransportFails => State' = "Disconnected"
    /\ (Len(calls') > Len(calls) /\ _connection # None /\ conns[_connection] = "closed") =>
          (calls'[Len(calls')].outcome # "ok" /\ wire' = wire)

\* C9 (as stated): the state only moves Disconnected -> Connecting ->
\* Connected (a failed attempt falling back to Disconnected) and Connected ->
\* Disconnected; a transport failure of a Connected session returns it to
\* Disconnected, and a send after that failure fails without a write.
C9_StateMachine == [][C9_Step]_vars

\* C10 (as stated): at most one connection is ever opened, and no
\* connection is open other than the one the session holds.
C10_OneConnection ==
    /\ Len(conns) <= 1
    /\ \A c \in 1..Len(conns) : conns[c] = "open" => c = _connection

\* The search call has ended, by returning or by raising.
SearchEnded == s_pc \in {"returned", "raised"}

\* The query the claims expect to be handed on: "{searchTag}:{query}" under
\* useQuery, the query itself otherwise.
ExpectedQuery ==
    IF args.search THEN _searchType[args.cls] \o ":" \o args.query ELSE args.query

\* C2 (as stated): a non-partial search whose lookup returned None or an
\* empty list returns None and raises nothing.
C2_EmptyLookupReturnsNone ==
    (SearchEnded /\ ~args.partial /\ tracks \in {NoneV, ListV(<<>>)}) =>
        result = Returned(NoneV)

\* C3 (as stated): a partial search invokes no collaborator (no node-pool
\* lookup, no getTracks) and returns PartialResource(cls, query as handed
\* on, useQuery).
C3_PartialTouchesNoCollaborator ==
    (args.partial /\ s_pc # "start") =>
        /\ poolCalls = 0
        /\ lookups = <<>>
        /\ result.kind = "return"
        /\ result.value = PartialResource(args.cls, ExpectedQuery, args.search)

\* C4 (as stated): a non-partial search on any variant calls getTracks
\* exactly once, with that variant and with "{searchTag}:{query}" under
\* useQuery, the query unchanged otherwise.
C4_LookupCalledOnceWithTaggedQuery ==
    (~args.partial /\ s_pc # "start") =>
        /\ Len(lookups) = 1
        /\ lookups[1].cls = args.cls
        /\ lookups[1].query = ExpectedQuery

\* C5 (as stated): for a lookup result that is not None, search returns its
\* first element when returnFirst and useQuery hold and the result is a
\* non-empty list, and the full result unchanged, without raising, in every
\* other case.
C5_ResultSelection ==
    (SearchEnded /\ ~args.partial /\ tracks \notin {Unset, NoneV}) =>
        IF args.returnFirst /\ args.search /\ tracks.type = "list" /\ Len(tracks.items) > 0
        THEN result = Returned(TrackV(tracks.items[1]))
        ELSE result = Returned(tracks)

\* The attributes of Stats that the payload must supply, with their keys.
RequiredFields ==
    {<<"uptime", <<"uptime">>>>, <<"players", <<"players">>>>,
     <<"playingPlayers", <<"playingPlayers">>>>,
     <<"memoryReservable", <<"memory", "reservable">>>>,
     <<"memoryUsed", <<"memory", "used">>>>,
     <<"memoryFree", <<"memory", "free">>>>,
     <<"memoryAllocated", <<"memory", "allocated">>>>,
     <<"cpuCores", <<"cpu", "cores">>>>,
     <<"systemLoad", <<"cpu", "systemLoad">>>>,
     <<"lavalinkLoad", <<"cpu", "lavalinkLoad">>>>}

FrameFields ==
    {<<"framesSent", <<"frameStats", "sent">>>>,
     <<"framesDeficit", <<"frameStats", "deficit">>>>,
     <<"framesNulled", <<"frameStats", "nulled">>>>}

Present(d, path) ==
    /\ path[1] \in DOMAIN d
    /\ Len(path) = 2 => path[2] \in DOMAIN d[path[1]]

At(d, path) == IF Len(path) = 1 THEN d[path[1]] ELSE d[path[1]][path[2]]

\* C8: decoding gives a snapshot whose required fields equal the payload's,
\* whose frame counters equal the payload's where present and -1 where the
\* counter or the whole frameStats object is absent; a payload missing a
\* required field gives no snapshot but an error.
C8_StatsDecode ==
    st_pc = "decoded" =>
        IF \A f \in RequiredFields : Present(data, f[2])
        THEN /\ stats.kind = "Stats"
             /\ \A f \in RequiredFields : stats[f[1]] = At(data, f[2])
             /\ \A f \in FrameFields :
                   stats[f[1]] = IF Present(data, f[2]) THEN At(data, f[2]) ELSE -1
        ELSE stats.kind = "KeyError"

\* A payload with frameStats present but without its "sent" counter has
\* been decoded.
C8_Witness ==
    /\ st_pc = "decoded"
    /\ stats.kind = "Stats"
    /\ "frameStats" \in DOMAIN data
    /\ "sent" \notin DOMAIN data["frameStats"]
    /\ stats.framesSent = -1
    /\ stats.framesDeficit = data["frameStats"]["deficit"]

====
